---- MODULE Spec2Model ----
(***************************************************************************)
(* Model of the Product Transparency AI service (ai-service/main.py): the  *)
(* two POST handlers, the scoring functions, the question catalog and the  *)
(* single event loop on which the handlers run.                            *)
(***************************************************************************)
EXTENDS Integers, Sequences, FiniteSets, TLC

(***************************************************************************)
(* Python floats.  The scores are computed with / and * on Python          *)
(* floats (IEEE-754 binary64, round to nearest, ties to even) and cut by   *)
(* int().  A float is [m, e] standing for m * 2^e, where m is a natural    *)
(* number of at most 53 significant bits kept as a little-endian sequence  *)
(* of limbs in base 2^15 (the empty sequence is zero).                     *)
(***************************************************************************)
LimbBits == 15
Base == 2^LimbBits
Precision == 53
DivGuardLimbs == 5

RECURSIVE BigNorm(_)
BigNorm(a) ==
    IF a = <<>> THEN <<>>
    ELSE IF a[Len(a)] = 0 THEN BigNorm(SubSeq(a, 1, Len(a) - 1))
    ELSE a

RECURSIVE BigOfNat(_)
BigOfNat(n) == IF n = 0 THEN <<>> ELSE <<n % Base>> \o BigOfNat(n \div Base)

RECURSIVE NatOfBig(_)
NatOfBig(a) == IF a = <<>> THEN 0 ELSE a[1] + Base * NatOfBig(Tail(a))

Limb(a, i) == IF i >= 1 /\ i <= Len(a) THEN a[i] ELSE 0

RECURSIVE SmallBitLen(_)
SmallBitLen(n) == IF n = 0 THEN 0 ELSE 1 + SmallBitLen(n \div 2)

BitLen(a) == IF a = <<>> THEN 0 ELSE LimbBits * (Len(a) - 1) + SmallBitLen(a[Len(a)])

RECURSIVE BigAddC(_, _, _, _)
BigAddC(a, b, i, carry) ==
    IF i > Len(a) /\ i > Len(b)
    THEN IF carry = 0 THEN <<>> ELSE <<carry>>
    ELSE LET s == Limb(a, i) + Limb(b, i) + carry
         IN  <<s % Base>> \o BigAddC(a, b, i + 1, s \div Base)

BigAdd(a, b) == BigAddC(a, b, 1, 0)

RECURSIVE BigMulSmallC(_, _, _, _)
BigMulSmallC(a, k, i, carry) ==
    IF i > Len(a)
    THEN IF carry = 0 THEN <<>> ELSE <<carry>>
    ELSE LET p == a[i] * k + carry
         IN  <<p % Base>> \o BigMulSmallC(a, k, i + 1, p \div Base)

BigMulSmall(a, k) == IF k = 0 THEN <<>> ELSE BigMulSmallC(a, k, 1, 0)

ZeroLimbs(n) == [j \in 1..n |-> 0]

RECURSIVE BigMulFrom(_, _, _)
BigMulFrom(a, b, i) ==
    IF i > Len(a) THEN <<>>
    ELSE BigAdd(IF a[i] = 0 THEN <<>> ELSE ZeroLimbs(i - 1) \o BigMulSmall(b, a[i]),
                BigMulFrom(a, b, i + 1))

BigMul(a, b) == BigNorm(BigMulFrom(a, b, 1))

\* a * 2^s
BigShl(a, s) ==
    LET r == s % LimbBits
        hi == 2^(LimbBits - r)
    IN  IF a = <<>> THEN <<>>
        ELSE ZeroLimbs(s \div LimbBits) \o
             BigNorm([j \in 1..(Len(a) + 1) |->
                        (Limb(a, j) % hi) * (2^r) + (Limb(a, j - 1) \div hi)])

\* floor(a / 2^s)
BigShr(a, s) ==
    LET d == s \div LimbBits
        r == s % LimbBits
        lo == 2^r
    IN  IF Len(a) <= d THEN <<>>
        ELSE BigNorm([j \in 1..(Len(a) - d) |->
                        (a[j + d] \div lo) + (Limb(a, j + d + 1) % lo) * (2^(LimbBits - r))])

BigBit(a, i) == (Limb(a, (i \div LimbBits) + 1) \div (2^(i % LimbBits))) % 2

\* some bit of a below position i is set
BigAnyBelow(a, i) ==
    \/ \E j \in 1..(i \div LimbBits) : Limb(a, j) # 0
    \/ Limb(a, (i \div LimbBits) + 1) % (2^(i % LimbBits)) # 0

RECURSIVE BigLessFrom(_, _, _)
BigLessFrom(a, b, i) ==
    IF i = 0 THEN FALSE
    ELSE IF Limb(a, i) # Limb(b, i) THEN Limb(a, i) < Limb(b, i)
    ELSE BigLessFrom(a, b, i - 1)

BigLess(a, b) == BigLessFrom(a, b, IF Len(a) > Len(b) THEN Len(a) ELSE Len(b))

\* quotient and remainder of a by a divisor below 2^15, from limb i downwards
RECURSIVE BigDivSmallFrom(_, _, _, _)
BigDivSmallFrom(a, d, i, rem) ==
    IF i = 0 THEN [q |-> <<>>, r |-> rem]
    ELSE LET cur == rem * Base + a[i]
             rest == BigDivSmallFrom(a, d, i - 1, cur % d)
         IN  [q |-> rest.q \o <<cur \div d>>, r |-> rest.r]

BigDivSmall(a, d) ==
    LET res == BigDivSmallFrom(a, d, Len(a), 0)
    IN  [q |-> BigNorm(res.q), r |-> res.r]

FZero == [m |-> <<>>, e |-> 0]

\* round m * 2^e (plus a non-zero tail below it when sticky) to 53 bits
RoundNearestEven(m, e, sticky) ==
    LET s == BitLen(m) - Precision
        q == BigShr(m, s)
        half == BigBit(m, s - 1) = 1
        tail == sticky \/ BigAnyBelow(m, s - 1)
        up == half /\ (tail \/ BigBit(q, 0) = 1)
    IN  IF s <= 0 THEN [m |-> m, e |-> e]
        ELSE [m |-> IF up THEN BigAdd(q, <<1>>) ELSE q, e |-> e + s]

\* float(n) for a small non-negative int
FloatOfInt(n) == [m |-> BigOfNat(n), e |-> 0]

\* int / int (true division, correctly rounded)
IntTrueDiv(a, d) ==
    LET res == BigDivSmall(ZeroLimbs(DivGuardLimbs) \o BigOfNat(a), d)
    IN  IF a = 0 THEN FZero
        ELSE RoundNearestEven(BigAdd(BigShl(res.q, 1), IF res.r = 0 THEN <<>> ELSE <<1>>),
                              0 - (DivGuardLimbs * LimbBits) - 1, FALSE)

FMul(x, y) ==
    IF x.m = <<>> \/ y.m = <<>> THEN FZero
    ELSE RoundNearestEven(BigMul(x.m, y.m), x.e + y.e, FALSE)

FAdd(x, y) ==
    LET e == IF x.e < y.e THEN x.e ELSE y.e
    IN  RoundNearestEven(BigNorm(BigAdd(BigShl(x.m, x.e - e), BigShl(y.m, y.e - e))), e, FALSE)

FLess(x, y) ==
    LET e == IF x.e < y.e THEN x.e ELSE y.e
    IN  BigLess(BigShl(x.m, x.e - e), BigShl(y.m, y.e - e))

\* min(a, b) of Python: b unless a < b ... min returns the first minimal item
FMin(x, y) == IF FLess(y, x) THEN y ELSE x

\* int(x) for x >= 0: truncation
FloatToInt(x) ==
    IF x.e >= 0 THEN NatOfBig(BigShl(x.m, x.e)) ELSE NatOfBig(BigShr(x.m, 0 - x.e))

\* the float literals of the scoring formula
Lit_0_5 == IntTrueDiv(1, 2)
Lit_0_3 == IntTrueDiv(3, 10)
Lit_0_2 == IntTrueDiv(2, 10)


(***************************************************************************)
(* Python values that cross the pydantic boundary carry their type in the  *)
(* field py, so that isinstance tests, subscripting and response-model     *)
(* validation can be decided.                                              *)
(***************************************************************************)
PyStr(s) == [py |-> "str", val |-> s]
PyList(items) == [py |-> "list", val |-> items]
PyDict(fields) == [py |-> "dict", val |-> fields]
PyInt(n) == [py |-> "int", val |-> n]

\* the test "if GEMINI_API_KEY:" on the string read from the environment
Truthy(s) == s # ""

(***************************************************************************)
(* Question catalog                                                        *)
(***************************************************************************)
Question(id, text, category) ==
    PyDict([id |-> id, question |-> text, type |-> "text", category |-> category])

get_base_questions ==
    << Question("ingredients", "What are the main ingredients or components?", "composition"),
       Question("allergens", "Does this product contain any allergens?", "health"),
       Question("origin", "Where is this product manufactured?", "origin"),
       Question("certifications", "List any certifications (Organic, Fair Trade, etc.)", "ethics") >>

category_map ==
    [ Food |-> << Question("nutrition", "Provide key nutritional information", "health"),
                  Question("preservatives", "List any preservatives or additives", "health"),
                  Question("expiry", "What is the typical shelf life?", "storage") >>,
      Beverage |-> << Question("sugar", "Sugar content per serving?", "health"),
                      Question("artificial", "Any artificial ingredients?", "health") >>,
      Cosmetics |-> << Question("testing", "Is this product cruelty-free?", "ethics"),
                       Question("chemicals", "List potentially harmful chemicals (if any)", "health") >>,
      Supplements |-> << Question("clinical", "Has this undergone clinical testing?", "health"),
                         Question("dosage", "Recommended dosage and warnings?", "health") >> ]

\* variant: an unknown category falls back to the Food questions
get_category_questions_food_default(category) ==
    IF category \in DOMAIN category_map THEN category_map[category] ELSE category_map["Food"]

get_category_questions(category) ==
    IF category \in DOMAIN category_map THEN category_map[category] ELSE <<>>

(***************************************************************************)
(* Answers.  An answer string is kept as its run lengths: pad leading      *)
(* whitespace characters followed by core characters that begin and end    *)
(* with a non-blank one.  NoAnswer is a response without the answer key.   *)
(***************************************************************************)
NoAnswer == [present |-> FALSE, pad |-> 0, core |-> 0]
Answer(pad, core) == [present |-> TRUE, pad |-> pad, core |-> core]

\* len(str(response.get('answer', '')))
AnswerLen(r) == IF r.answer.present THEN r.answer.pad + r.answer.core ELSE 0

\* len(str(r['answer']).strip())
StrippedLen(r) == r.answer.core

\* r.get('answer') and str(r['answer']).strip()
IsAnswered(r) == r.answer.present /\ AnswerLen(r) > 0 /\ StrippedLen(r) > 0

RECURSIVE CountAnswered(_)
CountAnswered(responses) ==
    IF responses = <<>> THEN 0
    ELSE (IF IsAnswered(Head(responses)) THEN 1 ELSE 0) + CountAnswered(Tail(responses))

LongAnswer == 100
MediumAnswer == 50
ShortAnswer == 10

QualityPointsOf(r) ==
    IF AnswerLen(r) > LongAnswer THEN 3
    ELSE IF AnswerLen(r) > MediumAnswer THEN 2
    ELSE IF AnswerLen(r) > ShortAnswer THEN 1
    ELSE 0

RECURSIVE quality_points(_)
quality_points(responses) ==
    IF responses = <<>> THEN 0
    ELSE QualityPointsOf(Head(responses)) + quality_points(Tail(responses))

DefaultCategoryScore == 50

CategoryResponses(responses, category) ==
    SelectSeq(responses, LAMBDA r : r.category = category)

\* variant: an answer counts as soon as it is a non-empty string (no strip)
calculate_category_score_no_strip(responses, category) ==
    LET category_responses == CategoryResponses(responses, category)
        answered == Len(SelectSeq(category_responses,
                                  LAMBDA r : r.answer.present /\ AnswerLen(r) > 0))
    IN  IF category_responses = <<>> THEN DefaultCategoryScore
        ELSE FloatToInt(FMul(IntTrueDiv(answered, Len(category_responses)), FloatOfInt(100)))

calculate_category_score(responses, category) ==
    LET category_responses == CategoryResponses(responses, category)
        answered == CountAnswered(category_responses)
    IN  IF category_responses = <<>> THEN DefaultCategoryScore
        ELSE FloatToInt(FMul(IntTrueDiv(answered, Len(category_responses)), FloatOfInt(100)))

Completeness(responses) ==
    FMul(IntTrueDiv(CountAnswered(responses), Len(responses)), FloatOfInt(100))

QualityScore(responses) ==
    FMin(FloatOfInt(100),
         FMul(IntTrueDiv(quality_points(responses), Len(responses) * 3), FloatOfInt(100)))

TransparencyScore(responses, health_score, ethics_score) ==
    FloatToInt(FAdd(FAdd(FMul(Completeness(responses), Lit_0_5),
                         FMul(QualityScore(responses), Lit_0_3)),
                    FMul(IntTrueDiv(health_score + ethics_score, 2), Lit_0_2)))

\* variant: the brackets exclude their lower ends (> instead of >=)
generate_basic_recommendations_strict(score) ==
    PyList([i \in 1..(IF score > 80 THEN 3 ELSE IF score > 60 THEN 4
                      ELSE IF score > 40 THEN 5 ELSE 6) |-> PyStr("recommendation")])

generate_basic_recommendations(score) ==
    IF score >= 80 THEN
        PyList(<< PyStr("Excellent transparency! Share this with customers"),
                PyStr("Consider publishing detailed supply chain information"),
                PyStr("Add third-party verification for even more credibility") >>)
    ELSE IF score >= 60 THEN
        PyList(<< PyStr("Good transparency foundation"),
                PyStr("Add more detailed ingredient sourcing information"),
                PyStr("Include quality control and testing procedures"),
                PyStr("Consider adding sustainability metrics") >>)
    ELSE IF score >= 40 THEN
        PyList(<< PyStr("Moderate transparency - needs improvement"),
                PyStr("Provide complete ingredient lists with sources"),
                PyStr("Add manufacturing process details"),
                PyStr("Include all relevant certifications"),
                PyStr("Answer all health and safety questions thoroughly") >>)
    ELSE
        PyList(<< PyStr("Low transparency - immediate action needed"),
                PyStr("Complete all required product information"),
                PyStr("Provide detailed answers (50+ characters each)"),
                PyStr("Add certifications and testing results"),
                PyStr("Include sourcing and manufacturing details"),
                PyStr("Address all health and safety concerns") >>)

(***************************************************************************)
(* The reply of the external model.  generate_content either raises or     *)
(* returns a text, kept as a sequence of tokens: a code fence, free prose  *)
(* or the text of one JSON value (fence_json and fence are the markdown    *)
(* markers that open a json code block and that open or close any block).  *)
(***************************************************************************)
PyNone == [py |-> "NoneType", val |-> 0]
FenceJson == [tok |-> "fence_json", val |-> PyNone]
Fence == [tok |-> "fence", val |-> PyNone]
Prose == [tok |-> "prose", val |-> PyNone]
Json(value) == [tok |-> "json", val |-> value]

ModelRaises == [raises |-> TRUE, text |-> <<>>]
ModelText(tokens) == [raises |-> FALSE, text |-> tokens]

\* the "# Clean response" block: startswith / replace
CleanResponse(text) ==
    IF text # <<>> /\ text[1].tok = "fence_json"
    THEN SelectSeq(text, LAMBDA k : k.tok \notin {"fence_json", "fence"})
    ELSE IF text # <<>> /\ text[1].tok = "fence"
    THEN SelectSeq([i \in 1..Len(text) |-> IF text[i].tok = "fence_json" THEN Prose ELSE text[i]],
                   LAMBDA k : k.tok # "fence")
    ELSE text

\* json.loads: the text must be exactly one JSON value
JsonLoads(text) ==
    IF Len(text) = 1 /\ text[1].tok = "json"
    THEN [ok |-> TRUE, value |-> text[1].val]
    ELSE [ok |-> FALSE, value |-> PyNone]

\* ai_result[key]: only a dict holding the key yields a value
Subscript(obj, key) ==
    IF obj.py = "dict" /\ key \in DOMAIN obj.val
    THEN [ok |-> TRUE, value |-> obj.val[key]]
    ELSE [ok |-> FALSE, value |-> PyNone]

\* pydantic validation of the response models
ValidQuestionResponse(questions) ==
    \A i \in 1..Len(questions) : questions[i].py = "dict"

ValidScoreResponse(recommendations, ai_analysis) ==
    /\ ai_analysis.py = "str"
    /\ recommendations.py = "list"
    /\ \A i \in 1..Len(recommendations.val) : recommendations.val[i].py = "str"

(***************************************************************************)
(* The service.  Requests are handled by coroutines on one event loop;     *)
(* loop is the task that holds the loop's thread (NoTask when it is free). *)
(***************************************************************************)
NumTasks == 2
MaxResponses == 3
MaxOrderedResponses == 2
NoTask == 0
Tasks == 1..NumTasks

VARIABLES GEMINI_API_KEY, loop, pc, request, frame, model_calls, model_reply, excepts, response

vars == <<GEMINI_API_KEY, loop, pc, request, frame, model_calls, model_reply, excepts, response>>

NoRequest == [endpoint |-> "", category |-> "", previous_answers |-> <<>>, responses |-> <<>>]
QuestionRequest(category, previous_answers) ==
    [endpoint |-> "generate-questions", category |-> category,
     previous_answers |-> previous_answers, responses |-> <<>>]
ScoreRequest(category, responses) ==
    [endpoint |-> "transparency-score", category |-> category,
     previous_answers |-> <<>>, responses |-> responses]

NoFrame ==
    [all_questions |-> <<>>, transparency_score |-> 0, health_score |-> 0, ethics_score |-> 0,
     recommendations |-> PyNone, ai_analysis |-> PyNone, prompt |-> <<>>]

NoReply == [raises |-> FALSE, text |-> <<[tok |-> "none", val |-> PyNone]>>]

NoResponse == [status |-> 0]
QuestionResponse(questions, ai_generated) ==
    [status |-> 200, questions |-> questions, ai_generated |-> ai_generated]
ScoreResponse(transparency_score, health_score, ethics_score, recommendations, ai_analysis) ==
    [status |-> 200, transparency_score |-> transparency_score, health_score |-> health_score,
     ethics_score |-> ethics_score, recommendations |-> recommendations,
     ai_analysis |-> ai_analysis]
HTTPException == [status |-> 500]

Init ==
    /\ GEMINI_API_KEY \in {"", "key"}
    /\ loop = NoTask
    /\ pc = [t \in Tasks |-> "idle"]
    /\ request = [t \in Tasks |-> NoRequest]
    /\ frame = [t \in Tasks |-> NoFrame]
    /\ model_calls = [t \in Tasks |-> 0]
    /\ model_reply = [t \in Tasks |-> NoReply]
    /\ excepts = [t \in Tasks |-> {}]
    /\ response = [t \in Tasks |-> NoResponse]

\* a client sends a request; it waits until the event loop picks it up
Arrive(t, body) ==
    /\ pc[t] = "idle"
    /\ pc' = [pc EXCEPT ![t] = "queued"]
    /\ request' = [request EXCEPT ![t] = body]
    /\ UNCHANGED <<GEMINI_API_KEY, loop, frame, model_calls, model_reply, excepts, response>>

\* the handler returns or raises: the response goes out and the loop is free
Respond(t, resp, raised, reply) ==
    /\ pc' = [pc EXCEPT ![t] = "done"]
    /\ model_reply' = [model_reply EXCEPT ![t] = reply]
    /\ response' = [response EXCEPT ![t] = resp]
    /\ excepts' = [excepts EXCEPT ![t] = raised]
    /\ frame' = [frame EXCEPT ![t] = NoFrame]
    /\ loop' = NoTask
    /\ UNCHANGED <<GEMINI_API_KEY, request>>

\* variant: the locals of the handler live in module-level state
GenerateContent_shared_locals(t, callee, locals) ==
    /\ pc' = [pc EXCEPT ![t] = callee]
    /\ frame' = [u \in Tasks |-> locals]
    /\ model_calls' = [model_calls EXCEPT ![t] = @ + 1]
    /\ loop' = t
    /\ UNCHANGED <<GEMINI_API_KEY, request, model_reply, excepts, response>>

\* model.generate_content(prompt): a synchronous call inside the coroutine,
\* which keeps the loop's thread until the reply is there
GenerateContent(t, callee, locals) ==
    /\ pc' = [pc EXCEPT ![t] = callee]
    /\ frame' = [frame EXCEPT ![t] = locals]
    /\ model_calls' = [model_calls EXCEPT ![t] = @ + 1]
    /\ loop' = t
    /\ UNCHANGED <<GEMINI_API_KEY, request, model_reply, excepts, response>>

\* previous_answers[:3]
FirstThree(previous_answers) ==
    SubSeq(previous_answers, 1, IF Len(previous_answers) < 3 THEN Len(previous_answers) ELSE 3)

\* lines 80-89: extend, build the response, the two except clauses
FinishGenerateQuestions(t, all_questions, ai_questions, raised, reply) ==
    LET extended == all_questions \o ai_questions
    IN  IF ValidQuestionResponse(extended)
        THEN Respond(t, QuestionResponse(extended, TRUE), raised, reply)
        ELSE IF ValidQuestionResponse(extended)
        THEN Respond(t, QuestionResponse(extended, FALSE), raised \cup {"inner"}, reply)
        ELSE Respond(t, HTTPException, raised \cup {"inner", "outer"}, reply)

\* POST /generate-questions up to the model call (or to the end without one)
generate_questions(t) ==
    /\ loop = NoTask
    /\ pc[t] = "queued"
    /\ request[t].endpoint = "generate-questions"
    /\ LET all_questions == get_base_questions \o get_category_questions(request[t].category)
       IN  IF Truthy(GEMINI_API_KEY)
           THEN IF ~Truthy(GEMINI_API_KEY)
                THEN /\ FinishGenerateQuestions(t, all_questions, <<>>, {}, NoReply)
                     /\ UNCHANGED model_calls
                ELSE GenerateContent(t, "generate_ai_questions",
                        [NoFrame EXCEPT !.all_questions = all_questions,
                                        !.prompt = FirstThree(request[t].previous_answers)])
           ELSE /\ Respond(t, QuestionResponse(all_questions, FALSE), {}, NoReply)
                /\ UNCHANGED model_calls

\* variant: the parsed value is returned without the isinstance test, and
\* extending by a dict appends its keys
ParseAIQuestions_no_isinstance(reply) ==
    LET parsed == JsonLoads(CleanResponse(reply.text))
    IN  IF reply.raises \/ ~parsed.ok
        THEN [questions |-> <<>>, raised |-> {"generate_ai_questions"}]
        ELSE [questions |-> IF parsed.value.py = "list" THEN parsed.value.val
                            ELSE <<PyStr("questions")>>,
              raised |-> {}]

\* lines 192-206 of generate_ai_questions
ParseAIQuestions(reply) ==
    LET parsed == JsonLoads(CleanResponse(reply.text))
    IN  IF reply.raises \/ ~parsed.ok
        THEN [questions |-> <<>>, raised |-> {"generate_ai_questions"}]
        ELSE [questions |-> IF parsed.value.py = "list" THEN parsed.value.val ELSE <<>>,
              raised |-> {}]

\* the model call of generate_ai_questions ends and the handler runs to its end
generate_ai_questions_returns(t, reply) ==
    /\ loop = t
    /\ pc[t] = "generate_ai_questions"
    /\ LET ai == ParseAIQuestions(reply)
       IN  FinishGenerateQuestions(t, frame[t].all_questions, ai.questions, ai.raised, reply)
    /\ UNCHANGED model_calls

\* responses[:10], each answer cut to 200 characters
ResponseSummary(responses) ==
    [i \in 1..(IF Len(responses) < 10 THEN Len(responses) ELSE 10) |->
        LET a == responses[i].answer
            pad == IF a.pad < 200 THEN a.pad ELSE 200
        IN  [question |-> "Unknown",
             answer |-> [pad |-> pad, core |-> IF a.core < 200 - pad THEN a.core ELSE 200 - pad]]]

\* lines 146-160: take over the AI result, build the response, the except clauses
FinishTransparencyScore(t, locals, ai_result, raised, reply) ==
    LET analysis == Subscript(ai_result, "analysis")
        recs == Subscript(ai_result, "recommendations")
        ai_analysis == IF analysis.ok THEN analysis.value ELSE locals.ai_analysis
        recommendations == IF analysis.ok /\ recs.ok THEN recs.value ELSE locals.recommendations
        caught == IF analysis.ok /\ recs.ok THEN raised ELSE raised \cup {"inner"}
    IN  IF ValidScoreResponse(recommendations, ai_analysis)
        THEN Respond(t, ScoreResponse(locals.transparency_score, locals.health_score,
                                      locals.ethics_score, recommendations, ai_analysis), caught,
                     reply)
        ELSE Respond(t, HTTPException, caught \cup {"outer"}, reply)

\* POST /transparency-score up to the model call (or to the end without one);
\* each score is computed once and bound, as the assignments of lines 127-136 do
calculate_transparency_score(t) ==
    /\ loop = NoTask
    /\ pc[t] = "queued"
    /\ request[t].endpoint = "transparency-score"
    /\ IF Len(request[t].responses) = 0
       THEN /\ Respond(t, ScoreResponse(0, 0, 0,
                    PyList(<<PyStr("Add product information to get a transparency score")>>),
                    PyStr("No data available for analysis")), {}, NoReply)
            /\ UNCHANGED model_calls
       ELSE
         \E health_score \in {calculate_category_score(request[t].responses, "health")} :
         \E ethics_score \in {calculate_category_score(request[t].responses, "ethics")} :
         \E transparency_score \in
                {TransparencyScore(request[t].responses, health_score, ethics_score)} :
           LET locals == [NoFrame EXCEPT
                            !.transparency_score = transparency_score,
                            !.health_score = health_score,
                            !.ethics_score = ethics_score,
                            !.ai_analysis = PyStr("Standard analysis completed"),
                            !.recommendations =
                                generate_basic_recommendations(transparency_score),
                            !.prompt = ResponseSummary(request[t].responses)]
           IN  IF Truthy(GEMINI_API_KEY)
               THEN IF ~Truthy(GEMINI_API_KEY)
                    THEN /\ FinishTransparencyScore(t, locals,
                                PyDict([analysis |-> PyStr("AI analysis unavailable"),
                                        recommendations |->
                                            generate_basic_recommendations(transparency_score)]),
                                {}, NoReply)
                         /\ UNCHANGED model_calls
                    ELSE GenerateContent(t, "analyze_with_gemini", locals)
               ELSE /\ Respond(t, ScoreResponse(transparency_score, health_score, ethics_score,
                                                 locals.recommendations, locals.ai_analysis), {},
                            NoReply)
                    /\ UNCHANGED model_calls

\* lines 250-267 of analyze_with_gemini
ParseAnalysis(reply, score) ==
    LET parsed == JsonLoads(CleanResponse(reply.text))
    IN  IF reply.raises \/ ~parsed.ok
        THEN [result |-> PyDict([analysis |-> PyStr("Product shows " \o ToString(score)
                                        \o "% transparency. Further analysis pending."),
                                 recommendations |-> generate_basic_recommendations(score)]),
              raised |-> {"analyze_with_gemini"}]
        ELSE [result |-> parsed.value, raised |-> {}]

\* variant: a failed model call is repeated once
analyze_with_gemini_returns_retry(t, reply) ==
    /\ loop = t
    /\ pc[t] = "analyze_with_gemini"
    /\ IF reply.raises /\ model_calls[t] < 2
       THEN GenerateContent(t, "analyze_with_gemini", frame[t])
       ELSE /\ FinishTransparencyScore(t, frame[t],
                    ParseAnalysis(reply, frame[t].transparency_score).result,
                    ParseAnalysis(reply, frame[t].transparency_score).raised, reply)
            /\ UNCHANGED model_calls

\* the model call of analyze_with_gemini ends and the handler runs to its end
analyze_with_gemini_returns(t, reply) ==
    /\ loop = t
    /\ pc[t] = "analyze_with_gemini"
    /\ LET ai == ParseAnalysis(reply, frame[t].transparency_score)
       IN  FinishTransparencyScore(t, frame[t], ai.result, ai.raised, reply)
    /\ UNCHANGED model_calls

\* the client has its response; the task is gone
Collect(t) ==
    /\ pc[t] = "done"
    /\ pc' = [pc EXCEPT ![t] = "idle"]
    /\ request' = [request EXCEPT ![t] = NoRequest]
    /\ response' = [response EXCEPT ![t] = NoResponse]
    /\ model_calls' = [model_calls EXCEPT ![t] = 0]
    /\ model_reply' = [model_reply EXCEPT ![t] = NoReply]
    /\ excepts' = [excepts EXCEPT ![t] = {}]
    /\ UNCHANGED <<GEMINI_API_KEY, loop, frame>>

(***************************************************************************)
(* Inputs                                                                  *)
(***************************************************************************)
AIQuestions ==
    << Question("ai_1", "Which additives are used and why?", "health"),
       Question("ai_2", "How are suppliers audited?", "ethics") >>

AIAnalysis ==
    [analysis |-> PyStr("The product discloses most of its sourcing."),
     recommendations |-> PyList(<< PyStr("Publish supplier audits"),
                                   PyStr("List allergen handling"),
                                   PyStr("Add recycling guidance") >>)]

\* replies to the prompt of generate_ai_questions
QuestionReplies ==
    { ModelRaises,
      ModelText(<<Prose>>),
      ModelText(<<Json(PyList(AIQuestions))>>),
      ModelText(<<FenceJson, Json(PyList(AIQuestions)), Fence>>),
      ModelText(<<Prose, FenceJson, Json(PyList(AIQuestions)), Fence>>),
      ModelText(<<Json(PyList(<<>>))>>),
      ModelText(<<Json(PyDict([questions |-> PyList(AIQuestions)]))>>),
      ModelText(<<Json(PyList(<<PyInt(1), PyStr("Is it organic?")>>))>>) }

\* replies to the prompt of analyze_with_gemini
AnalysisReplies ==
    { ModelRaises,
      ModelText(<<Prose>>),
      ModelText(<<Json(PyDict(AIAnalysis))>>),
      ModelText(<<Fence, Json(PyDict(AIAnalysis)), Fence>>),
      ModelText(<<Json(PyList(<<PyDict(AIAnalysis)>>))>>),
      ModelText(<<Json(PyDict([analysis |-> AIAnalysis.analysis]))>>),
      ModelText(<<Json(PyDict([recommendations |-> AIAnalysis.recommendations]))>>),
      ModelText(<<Json(PyDict([analysis |-> AIAnalysis.analysis,
                               recommendations |-> PyList(<<>>)]))>>),
      ModelText(<<Json(PyDict([analysis |-> AIAnalysis.analysis,
                               recommendations |-> PyStr("Publish supplier audits")]))>>),
      ModelText(<<Json(PyDict([analysis |-> PyNone,
                               recommendations |-> AIAnalysis.recommendations]))>>) }

Response(category, answer) == [category |-> category, answer |-> answer]

FourAnswers == [i \in 1..4 |-> Response("health", Answer(0, 10 * i))]

Categories == {"Food", "Beverage", "Cosmetics", "Supplements", "Toys"}
PreviousAnswers == {<<>>, FourAnswers}
Answers == <<NoAnswer, Answer(1, 0), Answer(0, 10), Answer(0, 50), Answer(0, 100), Answer(1, 100)>>
ResponseCategories == <<"health", "ethics", "origin">>

\* the responses a client may send, in a fixed order
ResponseValues ==
    [k \in 1..(Len(ResponseCategories) * Len(Answers)) |->
        Response(ResponseCategories[((k - 1) \div Len(Answers)) + 1],
                 Answers[((k - 1) % Len(Answers)) + 1])]

\* every list of at most MaxOrderedResponses responses, and one list for each
\* multiset of at most MaxResponses responses (the scores read a list through
\* counts and sums only)
ResponseLists ==
    UNION { { [i \in 1..n |-> ResponseValues[ix[i]]] :
                ix \in {f \in [1..n -> DOMAIN ResponseValues] :
                            \/ n <= MaxOrderedResponses
                            \/ \A i \in 1..(n - 1) : f[i] <= f[i + 1]} } :
            n \in 0..MaxResponses }

\* the requests of the concurrent clients
ClientRequests ==
    { QuestionRequest("Food", <<>>),
      QuestionRequest("Toys", FourAnswers),
      ScoreRequest("Food", <<>>),
      ScoreRequest("Food", <<Response("health", Answer(0, 100)), Response("ethics", NoAnswer)>>) }

\* the requests of the single client
AllRequests ==
    {QuestionRequest(c, p) : c \in Categories, p \in PreviousAnswers}
        \cup {ScoreRequest("Food", r) : r \in ResponseLists}

\* the single client uses the first task
SingleClient == {t \in Tasks : \A u \in Tasks : t <= u}
SomeQuestionReplies == {ModelRaises, ModelText(<<Json(PyList(AIQuestions))>>)}
SomeAnalysisReplies == {ModelRaises, ModelText(<<Prose>>), ModelText(<<Json(PyDict(AIAnalysis))>>)}

(***************************************************************************)
(* Specifications: Spec is the service with NumTasks concurrent clients;   *)
(* SpecSeq is the service with one client and every request.               *)
(***************************************************************************)
Next ==
    \E t \in Tasks :
        \/ \E body \in ClientRequests : Arrive(t, body)
        \/ generate_questions(t)
        \/ \E reply \in QuestionReplies : generate_ai_questions_returns(t, reply)
        \/ calculate_transparency_score(t)
        \/ \E reply \in AnalysisReplies : analyze_with_gemini_returns(t, reply)
        \/ Collect(t)

Spec == Init /\ [][Next]_vars

NextSeq ==
    \E t \in SingleClient :
        \/ \E body \in AllRequests : Arrive(t, body)
        \/ generate_questions(t)
        \/ \E reply \in SomeQuestionReplies : generate_ai_questions_returns(t, reply)
        \/ calculate_transparency_score(t)
        \/ \E reply \in SomeAnalysisReplies : analyze_with_gemini_returns(t, reply)
        \/ Collect(t)

SpecSeq == Init /\ [][NextSeq]_vars

(***************************************************************************)
(* Properties.  The expected values below are written with exact integer   *)
(* arithmetic from the statement of each property; they use none of the    *)
(* scoring operators above.                                                *)
(***************************************************************************)
Done(t, endpoint) == pc[t] = "done" /\ request[t].endpoint = endpoint
DoneOK(t, endpoint) == Done(t, endpoint) /\ response[t].status = 200
AIEnabled == GEMINI_API_KEY # ""

WithLabel(responses, label) == SelectSeq(responses, LAMBDA r : r.category = label)
\* answered: the answer is present and non-empty after trimming
NumAnswered(responses) == Len(SelectSeq(responses, LAMBDA r : r.answer.present /\ r.answer.core > 0))
RoundedRatio(num, den) == (2 * num + den) \div (2 * den)

RoundedCategoryScore(responses, label) ==
    IF WithLabel(responses, label) = <<>> THEN 50
    ELSE RoundedRatio(100 * NumAnswered(WithLabel(responses, label)),
                      Len(WithLabel(responses, label)))

TrimmedPoints(r) ==
    IF r.answer.core > 100 THEN 3 ELSE IF r.answer.core > 50 THEN 2
    ELSE IF r.answer.core > 10 THEN 1 ELSE 0

RECURSIVE SumTrimmedPoints(_)
SumTrimmedPoints(responses) ==
    IF responses = <<>> THEN 0
    ELSE TrimmedPoints(Head(responses)) + SumTrimmedPoints(Tail(responses))

\* floor(0.5 * 100a/n + 0.3 * min(100, 100p/(3n)) + 0.2 * (h + e)/2)
\*   = floor((500a + 100 min(p, 3n) + n(h + e)) / (10n))
FloorOfFormula(n, a, p, h, e) ==
    (500 * a + 100 * (IF p > 3 * n THEN 3 * n ELSE p) + n * (h + e)) \div (10 * n)

QuestionIds(questions) == [i \in 1..Len(questions) |-> questions[i].val.id]
BaseIds == <<"ingredients", "allergens", "origin", "certifications">>
CategoryIds(category) ==
    IF category = "Food" THEN <<"nutrition", "preservatives", "expiry">>
    ELSE IF category = "Beverage" THEN <<"sugar", "artificial">>
    ELSE IF category = "Cosmetics" THEN <<"testing", "chemicals">>
    ELSE IF category = "Supplements" THEN <<"clinical", "dosage">>
    ELSE <<>>
CatalogIds(category) == BaseIds \o CategoryIds(category)

BracketLength(score) ==
    IF score >= 80 THEN 3 ELSE IF score >= 60 THEN 4 ELSE IF score >= 40 THEN 5 ELSE 6

\* C1: for every non-empty response sequence the returned transparency_score
\* is an integer in 0..100 and equals floor(0.5*completeness + 0.3*quality +
\* 0.2*(health+ethics)/2), quality taken from the trimmed answer lengths and
\* health and ethics being the rounded category scores.
C1_ScoreIsFloorOfFormula ==
    \A t \in Tasks :
        DoneOK(t, "transparency-score") /\ request[t].responses # <<>> =>
            LET rs == request[t].responses
            IN  /\ response[t].transparency_score \in 0..100
                /\ response[t].transparency_score =
                     FloorOfFormula(Len(rs), NumAnswered(rs), SumTrimmedPoints(rs),
                                    RoundedCategoryScore(rs, "health"),
                                    RoundedCategoryScore(rs, "ethics"))

CategoryScoreOf(t, label) ==
    IF label = "health" THEN response[t].health_score ELSE response[t].ethics_score

QuestionErrorReplies ==
    { ModelRaises,
      ModelText(<<Prose>>),
      ModelText(<<Prose, FenceJson, Json(PyList(AIQuestions)), Fence>>),
      ModelText(<<Json(PyDict([questions |-> PyList(AIQuestions)]))>>),
      ModelText(<<Json(PyList(<<PyInt(1), PyStr("Is it organic?")>>))>>) }

AnalysisErrorReplies ==
    { ModelRaises,
      ModelText(<<Prose>>),
      ModelText(<<Json(PyList(<<PyDict(AIAnalysis)>>))>>),
      ModelText(<<Json(PyDict([analysis |-> AIAnalysis.analysis]))>>),
      ModelText(<<Json(PyDict([recommendations |-> AIAnalysis.recommendations]))>>),
      ModelText(<<Json(PyDict([analysis |-> AIAnalysis.analysis,
                               recommendations |-> PyStr("Publish supplier audits")]))>>),
      ModelText(<<Json(PyDict([analysis |-> PyNone,
                               recommendations |-> AIAnalysis.recommendations]))>>) }

\* C3: every AI-subsystem error on either POST endpoint is caught locally:
\* the endpoint answers 200, never 500, with the static content (the catalog
\* questions; the bracket-based recommendations).
C3_AIErrorsNeverSurface ==
    \A t \in Tasks :
        /\ Done(t, "generate-questions") /\ model_reply[t] \in QuestionErrorReplies =>
              /\ response[t].status = 200
              /\ QuestionIds(response[t].questions) = CatalogIds(request[t].category)
        /\ Done(t, "transparency-score") /\ model_reply[t] \in AnalysisErrorReplies =>
              /\ response[t].status = 200
              /\ Len(response[t].recommendations.val) =
                    BracketLength(response[t].transparency_score)

\* the AI analysis call fails: the model raises or its text is not JSON
FailedAnalysisCalls == {ModelRaises, ModelText(<<Prose>>)}

\* C4 as stated: whenever the AI is disabled or the analysis call fails, the
\* recommendations list has 3/4/5/6 entries for a score in [80,100], [60,80),
\* [40,60), [0,40), for every response sequence.
C4_AsStated ==
    \A t \in Tasks :
        /\ DoneOK(t, "transparency-score")
        /\ ~AIEnabled \/ model_reply[t] \in FailedAnalysisCalls
        => Len(response[t].recommendations.val) = BracketLength(response[t].transparency_score)

\* C4 (amended): whenever the AI is disabled or the analysis call fails, the
\* recommendations list has 3/4/5/6 entries for a score in [80,100], [60,80),
\* [40,60), [0,40), for every non-empty response sequence.
C4_BracketLengths ==
    \A t \in Tasks :
        /\ DoneOK(t, "transparency-score")
        /\ request[t].responses # <<>>
        /\ ~AIEnabled \/ model_reply[t] \in FailedAnalysisCalls
        => Len(response[t].recommendations.val) = BracketLength(response[t].transparency_score)

C4_Witness ==
    \E t \in Tasks :
        /\ DoneOK(t, "transparency-score")
        /\ request[t].responses # <<>>
        /\ AIEnabled /\ model_reply[t] = ModelRaises
        /\ response[t].transparency_score = 60
        /\ Len(response[t].recommendations.val) = 4

\* C5: in every response returned with status 200 by transparency-score, for
\* every input and every AI reply, the recommendations list is non-empty.
C5_RecommendationsNonEmpty ==
    \A t \in Tasks :
        DoneOK(t, "transparency-score") => Len(response[t].recommendations.val) > 0

\* C6: while one request is waiting for its model call, another request that
\* has arrived can still be handled: its handler is able to start.
C6_ModelCallDoesNotBlock ==
    \A t, u \in Tasks :
        /\ pc[t] \in {"generate_ai_questions", "analyze_with_gemini"}
        /\ pc[u] = "queued"
        => ENABLED (generate_questions(u) \/ calculate_transparency_score(u))

\* C7: when the AI is disabled, generate-questions returns, for every category
\* and every previous_answers value, the 4 base questions followed by the
\* questions of the category in catalog order (none for an unknown category),
\* with ai_generated = false; Food yields 7 questions.
C7_StaticQuestions ==
    \A t \in Tasks :
        Done(t, "generate-questions") /\ ~AIEnabled =>
            /\ response[t].status = 200
            /\ response[t].ai_generated = FALSE
            /\ QuestionIds(response[t].questions) = CatalogIds(request[t].category)
            /\ request[t].category = "Food" => Len(response[t].questions) = 7

C7_Witness ==
    \E t \in Tasks :
        /\ Done(t, "generate-questions") /\ ~AIEnabled
        /\ request[t].category = "Toys"
        /\ request[t].previous_answers # <<>>
        /\ Len(response[t].questions) = 4

\* the questions a reply contributes to the response of its own request
OwnAIIds(reply) ==
    IF reply \in { ModelText(<<Json(PyList(AIQuestions))>>),
                   ModelText(<<FenceJson, Json(PyList(AIQuestions)), Fence>>) }
    THEN <<"ai_1", "ai_2">>
    ELSE <<>>

\* a step leaves the credential alone, and leaves alone every request that
\* does not take the step
FrameCondition ==
    /\ GEMINI_API_KEY' = GEMINI_API_KEY
    /\ \A u \in Tasks :
          pc'[u] = pc[u] =>
              /\ request'[u] = request[u]
              /\ frame'[u] = frame[u]
              /\ model_calls'[u] = model_calls[u]
              /\ model_reply'[u] = model_reply[u]
              /\ excepts'[u] = excepts[u]
              /\ response'[u] = response[u]

\* C8: every run is independent: no step changes the credential or the state
\* of another request, and the questions returned to a request are the
\* catalog questions of its own category followed by the questions of its own
\* AI reply, whatever the other requests did.
C8_RequestsAreIndependent ==
    /\ [][FrameCondition]_vars
    /\ [](\A t \in Tasks :
            DoneOK(t, "generate-questions") =>
                QuestionIds(response[t].questions) =
                    CatalogIds(request[t].category) \o OwnAIIds(model_reply[t]))

C8_Witness ==
    \E t, u \in Tasks :
        /\ t # u
        /\ DoneOK(t, "generate-questions") /\ DoneOK(u, "generate-questions")
        /\ model_reply[t] = ModelText(<<Json(PyList(AIQuestions))>>)
        /\ model_reply[u] = ModelRaises
        /\ request[t].category = request[u].category
        /\ Len(response[t].questions) = Len(response[u].questions) + 2

\* C9: within one request the model is invoked at most once: a failed call is
\* not retried, and there is no call without a credential or for an empty
\* responses list.
C9_AtMostOneModelCall ==
    \A t \in Tasks :
        /\ model_calls[t] <= 1
        /\ ~AIEnabled => model_calls[t] = 0
        /\ request[t].endpoint = "transparency-score" /\ request[t].responses = <<>>
              => model_calls[t] = 0
        /\ pc[t] = "done" /\ model_reply[t] = ModelRaises => model_calls[t] = 1

C9_Witness ==
    \E t \in Tasks :
        /\ Done(t, "transparency-score")
        /\ model_reply[t] = ModelRaises
        /\ model_calls[t] = 1
        /\ response[t].status = 200

\* replies from which generate_ai_questions gets no list: the call fails or
\* the text does not parse as a JSON list
UnusableQuestionReplies ==
    { ModelRaises,
      ModelText(<<Prose>>),
      ModelText(<<Prose, FenceJson, Json(PyList(AIQuestions)), Fence>>),
      ModelText(<<Json(PyDict([questions |-> PyList(AIQuestions)]))>>) }

\* C10: with a credential, when the model call fails or its reply is not a
\* JSON list, generate-questions returns exactly the catalog questions with
\* ai_generated = true; ai_generated = false is returned with a credential
\* only through the inner except clause of the handler.
C10_FailureSwallowed ==
    \A t \in Tasks :
        Done(t, "generate-questions") /\ AIEnabled =>
            /\ model_reply[t] \in UnusableQuestionReplies =>
                  /\ response[t].status = 200
                  /\ response[t].ai_generated = TRUE
                  /\ QuestionIds(response[t].questions) = CatalogIds(request[t].category)
                  /\ "inner" \notin excepts[t]
            /\ response[t].status = 200 /\ response[t].ai_generated = FALSE
                  => "inner" \in excepts[t]

C10_Witness ==
    \E t \in Tasks :
        /\ Done(t, "generate-questions") /\ AIEnabled
        /\ model_reply[t] = ModelText(<<Json(PyDict([questions |-> PyList(AIQuestions)]))>>)
        /\ response[t].status = 200
        /\ response[t].ai_generated = TRUE
        /\ Len(response[t].questions) = 7

====
